---- MODULE Spec2Model ----
(***************************************************************************)
(* A model of the `what` asset loader: the LFU cache (src/src/lfu.rs), the *)
(* identifier generator (src/src/utils.rs), the filesystem backend         *)
(* (src/src/backend.rs) and the loader and container codec                 *)
(* (src/src/lib.rs).                                                       *)
(*                                                                         *)
(* Every public operation is one action that runs the whole handler.  A    *)
(* panic ends the run: status becomes "panicked" and no action is enabled. *)
(* The variable `last` records the last call: its arguments, its result    *)
(* and, for the eviction loop, one event per priority-queue pop.           *)
(***************************************************************************)
EXTENDS Integers, Sequences, FiniteSets, Bags, TLC

VARIABLES
    size_in_bytes,      \* LfuCache.size_in_bytes
    max_size_in_bytes,  \* LfuCache.max_size_in_bytes
    key_val,            \* LfuCache.key_val : key -> (item, frequency, priority)
    heap,               \* LfuCache.heap    : a bag of CacheEntry records
    used,               \* GuidGenerator.used
    paths,              \* What.paths : path -> Guid
    location,           \* What.location
    fs,                 \* the filesystem: resolved path -> bytes
    backend,            \* which Backend implementation serves read_file
    status,             \* "running" | "panicked"
    last,               \* the last call and what it did
    inserted,           \* history: key -> the item last given to insert
    fetched,            \* history: path -> the bytes of its last backend read
    wrote,              \* history: resolved path -> the asset last written there
    asset,              \* the asset the caller holds for the writers
    calls               \* history: the number of calls made so far

vars == <<size_in_bytes, max_size_in_bytes, key_val, heap, used, paths,
          location, fs, backend, status, last, inserted, fetched, wrote, asset,
          calls>>

cacheVars == <<size_in_bytes, max_size_in_bytes, key_val, heap>>

(***************************************************************************)
(* Bounds of the model.                                                    *)
(***************************************************************************)
\* A run makes at most this many calls.
MaxCalls == 5
\* Identifiers are drawn from 0..MaxGuid (the u32 space, cut down).
MaxGuid == 2
\* usize arithmetic wraps at this modulus (the 2^64 of the target, cut down;
\* it stays larger than any total the bounded queue can account for).
UsizeModulus == 1024

(***************************************************************************)
(* Program constants.                                                      *)
(***************************************************************************)
\* std::mem::size_of::<CacheEntry<Guid>>(): two usize and a u32, padded.
ENTRY_OVERHEAD == 24

\* the byte strings given as items and file contents
Items == {<<>>, <<7>>}
Keys == {0, 1}
Priorities == {0, 1}
Budgets == {0, ENTRY_OVERHEAD, ENTRY_OVERHEAD + 1, 2 * ENTRY_OVERHEAD + 1}

\* Option<T>
None == [some |-> FALSE]

Some(x) == [some |-> TRUE, v |-> x]

(***************************************************************************)
(* usize arithmetic.  An overflowing + or - panics in a build with         *)
(* overflow checks and wraps in a build without: both outcomes are kept.   *)
(***************************************************************************)
UsizeSub(a, b) ==
    IF a >= b THEN {[ok |-> TRUE, v |-> a - b]}
    ELSE {[ok |-> FALSE, v |-> a], [ok |-> TRUE, v |-> a - b + UsizeModulus]}

UsizeAdd(a, b) ==
    IF a + b < UsizeModulus THEN {[ok |-> TRUE, v |-> a + b]}
    ELSE {[ok |-> FALSE, v |-> a], [ok |-> TRUE, v |-> a + b - UsizeModulus]}

\* usize::checked_add(1)
CheckedAdd1(f) == IF f + 1 < UsizeModulus THEN Some(f + 1) ELSE None

(***************************************************************************)
(* LfuCache                                                                *)
(***************************************************************************)
\* impl ItemSize for Vec<u8>
ItemSize(item) == Len(item) * 1

\* (mutant) the comparator with its two keys swapped: frequency first
CacheEntryLeq_FrequencyFirst(a, b) ==
    \/ a.frequency < b.frequency
    \/ a.frequency = b.frequency /\ a.priority <= b.priority

\* impl Ord for CacheEntry: a <= b, priority first, then frequency
CacheEntryLeq(a, b) ==
    \/ a.priority < b.priority
    \/ a.priority = b.priority /\ a.frequency <= b.frequency

CacheEntry(k, f, p) == [key |-> k, frequency |-> f, priority |-> p]

\* BinaryHeap::pop: a greatest record; which one among equals is up to the heap.
HeapPop(h) == {e \in BagToSet(h) : \A o \in BagToSet(h) : CacheEntryLeq(o, e)}

HeapPush(h, e) == h (+) SetToBag({e})

HeapLen(h) == BagCardinality(h)

\* HashMap::insert and HashMap::remove on key_val
MapInsert(m, k, v) == [x \in DOMAIN m \cup {k} |-> IF x = k THEN v ELSE m[x]]

MapRemove(m, k) == [x \in DOMAIN m \ {k} |-> m[x]]

\* the (priority, frequency) pairs of the entries in the table
LivePairs(kv) == {<<kv[k].priority, kv[k].frequency>> : k \in DOMAIN kv}

\* (mutant) an iteration that leaves the record of an evicted entry in the queue
ShrinkStep_KeepsEvicted(c, e) ==
    LET h1 == c.heap (-) SetToBag({e})
        ev(kind, after) == [rec |-> e, kind |-> kind, live |-> LivePairs(c.kv),
                            present |-> e.key \in DOMAIN c.kv,
                            table_before |-> c.kv,
                            table_after |-> IF kind = "evict" THEN MapRemove(c.kv, e.key)
                                            ELSE c.kv,
                            size_before |-> c.size, size_after |-> after]
        fault(kind, sz) == [c EXCEPT !.heap = h1, !.size = sz, !.panic = kind,
                                     !.pops = Append(c.pops, ev(kind, sz))]
    IN UNION {
        IF ~s1.ok THEN {fault("overflow", c.size)}
        ELSE IF e.key \notin DOMAIN c.kv THEN {fault("missing", s1.v)}
        ELSE IF \/ e.frequency # c.kv[e.key].frequency
                \/ e.priority # c.kv[e.key].priority
        THEN {[c EXCEPT !.heap = h1, !.size = s1.v,
                        !.pops = Append(c.pops, ev("stale", s1.v))]}
        ELSE {IF ~s2.ok THEN fault("overflow", s1.v)
              ELSE [c EXCEPT !.size = s2.v,
                             !.kv = MapRemove(c.kv, e.key),
                             !.pops = Append(c.pops, ev("evict", s2.v))]
              : s2 \in UsizeSub(s1.v, ItemSize(c.kv[e.key].item))}
        : s1 \in UsizeSub(c.size, ENTRY_OVERHEAD)}

\* One iteration of the loop of shrink_to_fit on the popped record e.
\* c = [size, kv, heap, pops, panic]; the result is the set of outcomes.
ShrinkStep(c, e) ==
    LET h1 == c.heap (-) SetToBag({e})
        ev(kind, after) == [rec |-> e, kind |-> kind, live |-> LivePairs(c.kv),
                            present |-> e.key \in DOMAIN c.kv,
                            table_before |-> c.kv,
                            table_after |-> IF kind = "evict" THEN MapRemove(c.kv, e.key)
                                            ELSE c.kv,
                            size_before |-> c.size, size_after |-> after]
        fault(kind, sz) == [c EXCEPT !.heap = h1, !.size = sz, !.panic = kind,
                                     !.pops = Append(c.pops, ev(kind, sz))]
    IN UNION {
        IF ~s1.ok THEN {fault("overflow", c.size)}
        ELSE IF e.key \notin DOMAIN c.kv THEN {fault("missing", s1.v)}
        ELSE IF \/ e.frequency # c.kv[e.key].frequency
                \/ e.priority # c.kv[e.key].priority
        THEN {[c EXCEPT !.heap = h1, !.size = s1.v,
                        !.pops = Append(c.pops, ev("stale", s1.v))]}
        ELSE {IF ~s2.ok THEN fault("overflow", s1.v)
              ELSE [c EXCEPT !.heap = h1, !.size = s2.v,
                             !.kv = MapRemove(c.kv, e.key),
                             !.pops = Append(c.pops, ev("evict", s2.v))]
              : s2 \in UsizeSub(s1.v, ItemSize(c.kv[e.key].item))}
        : s1 \in UsizeSub(c.size, ENTRY_OVERHEAD)}

\* The loop of shrink_to_fit: every outcome of running it to its end.
RECURSIVE ShrinkLoop(_, _)
ShrinkLoop(c, max) ==
    IF c.panic # "none" \/ ~(c.size > max) THEN {c}
    ELSE IF HeapLen(c.heap) = 0 THEN {[c EXCEPT !.panic = "unwrap"]}
    ELSE UNION {UNION {ShrinkLoop(d, max) : d \in ShrinkStep(c, e)} : e \in HeapPop(c.heap)}

CacheState == [size |-> size_in_bytes, kv |-> key_val, heap |-> heap,
               pops |-> <<>>, panic |-> "none"]

\* (mutant) shrink_to_fit that sets the budget and evicts nothing
ShrinkToFitFrom_NoEviction(c, max_size) == {c}

\* LfuCache::shrink_to_fit from cache state c
ShrinkToFitFrom(c, max_size) == ShrinkLoop(c, max_size)

\* (mutant) insert whose capacity check lets an item one byte too large through
InsertFrom_OffByOne(c, max, key, value, priority) ==
    LET size == ItemSize(value) + ENTRY_OVERHEAD
    IN IF size > max + 1 THEN {[c EXCEPT !.panic = "too_large"]}
       ELSE UNION {
            {IF d.panic # "none" THEN d
             ELSE [d EXCEPT !.kv = MapInsert(d.kv, key,
                                [item |-> value, frequency |-> 0, priority |-> priority]),
                            !.heap = HeapPush(d.heap, CacheEntry(key, 0, priority))]
             : d \in ShrinkLoop([c EXCEPT !.size = s.v], max)}
            : s \in {x \in UsizeAdd(c.size, size) : x.ok}}

\* (mutant) insert that stores the entry and pushes no record for it
InsertFrom_NoRecord(c, max, key, value, priority) ==
    LET size == ItemSize(value) + ENTRY_OVERHEAD
    IN IF size > max THEN {[c EXCEPT !.panic = "too_large"]}
       ELSE UNION {
            IF ~s.ok THEN {[c EXCEPT !.panic = "overflow"]}
            ELSE {IF d.panic # "none" THEN d
                  ELSE [d EXCEPT !.kv = MapInsert(d.kv, key,
                                     [item |-> value, frequency |-> 0, priority |-> priority])]
                  : d \in ShrinkLoop([c EXCEPT !.size = s.v], max)}
            : s \in UsizeAdd(c.size, size)}

\* (mutant) insert that stores the entry first and evicts afterwards
InsertFrom_StoreFirst(c, max, key, value, priority) ==
    LET size == ItemSize(value) + ENTRY_OVERHEAD
    IN IF size > max THEN {[c EXCEPT !.panic = "too_large"]}
       ELSE UNION {
            IF ~s.ok THEN {[c EXCEPT !.panic = "overflow"]}
            ELSE ShrinkLoop([c EXCEPT !.size = s.v,
                                      !.kv = MapInsert(c.kv, key,
                                          [item |-> value, frequency |-> 0, priority |-> priority]),
                                      !.heap = HeapPush(c.heap, CacheEntry(key, 0, priority))],
                            max)
            : s \in UsizeAdd(c.size, size)}

\* LfuCache::insert from cache state c with budget max: the set of outcomes
InsertFrom(c, max, key, value, priority) ==
    LET size == ItemSize(value) + ENTRY_OVERHEAD
    IN IF size > max THEN {[c EXCEPT !.panic = "too_large"]}
       ELSE UNION {
            IF ~s.ok THEN {[c EXCEPT !.panic = "overflow"]}
            ELSE {IF d.panic # "none" THEN d
                  ELSE [d EXCEPT !.kv = MapInsert(d.kv, key,
                                     [item |-> value, frequency |-> 0, priority |-> priority]),
                                 !.heap = HeapPush(d.heap, CacheEntry(key, 0, priority))]
                  : d \in ShrinkToFitFrom([c EXCEPT !.size = s.v], max)}
            : s \in UsizeAdd(c.size, size)}

\* (mutant) get that hands out the item of some entry, not of the key asked for
GetFrom_AnyItem(c, key) ==
    IF key \in DOMAIN c.kv
    THEN LET e == c.kv[key]
             o == CHOOSE k \in DOMAIN c.kv : \A j \in DOMAIN c.kv : k <= j
         IN [hit |-> TRUE, result |-> Some(c.kv[o].item),
             c |-> [c EXCEPT !.kv = [c.kv EXCEPT ![key].frequency = e.frequency + 1],
                             !.heap = HeapPush(c.heap, CacheEntry(key, e.frequency + 1, e.priority))]]
    ELSE [hit |-> FALSE, result |-> None, c |-> c]

\* (mutant) get that counts the hit in the table and pushes no record
GetFrom_NoPush(c, key) ==
    IF key \in DOMAIN c.kv
    THEN [hit |-> TRUE, result |-> Some(c.kv[key].item),
          c |-> [c EXCEPT !.kv = [c.kv EXCEPT ![key].frequency = c.kv[key].frequency + 1]]]
    ELSE [hit |-> FALSE, result |-> None, c |-> c]

\* LfuCache::get from cache state c: the state after, and the result
GetFrom(c, key) ==
    IF key \in DOMAIN c.kv
    THEN LET e == c.kv[key]
             f == CheckedAdd1(e.frequency)
         IN [hit |-> TRUE, result |-> Some(e.item),
             c |-> IF ~f.some THEN c
                   ELSE [c EXCEPT !.kv = [c.kv EXCEPT ![key].frequency = f.v],
                                  !.heap = HeapPush(c.heap, CacheEntry(key, f.v, e.priority))]]
    ELSE [hit |-> FALSE, result |-> None, c |-> c]

\* the cache variables after an operation that ended in cache state d
SetCache(d) ==
    /\ size_in_bytes' = d.size
    /\ key_val' = d.kv
    /\ heap' = d.heap
    /\ status' = IF d.panic = "none" THEN "running" ELSE "panicked"

\* a call is made: the process is alive and the run is within its bound
Call ==
    /\ status = "running"
    /\ calls < MaxCalls
    /\ calls' = calls + 1

whatVars == <<used, paths, location, fs, backend, fetched, wrote, asset>>

\* LfuCache::new(capacity)
InitLfu ==
    /\ size_in_bytes = 0
    /\ max_size_in_bytes \in Budgets
    /\ key_val = <<>>
    /\ heap = EmptyBag
    /\ used = {}
    /\ paths = <<>>
    /\ location = None
    /\ fs = <<>>
    /\ backend = "fs"
    /\ status = "running"
    /\ last = [op |-> "new", pops |-> <<>>, panic |-> "none"]
    /\ inserted = <<>>
    /\ fetched = <<>>
    /\ wrote = <<>>
    /\ asset = None
    /\ calls = 0

\* cache.insert(key, value, priority)
Insert(key, value, priority) ==
    /\ Call
    /\ \E d \in InsertFrom(CacheState, max_size_in_bytes, key, value, priority) :
        /\ SetCache(d)
        /\ last' = [op |-> "insert", key |-> key, item |-> value, priority |-> priority,
                    before |-> IF key \in DOMAIN key_val THEN Some(key_val[key]) ELSE None,
                    pops |-> d.pops, panic |-> d.panic]
        /\ inserted' = IF d.panic = "none" THEN MapInsert(inserted, key, value) ELSE inserted
    /\ UNCHANGED <<max_size_in_bytes, whatVars>>

\* cache.shrink_to_fit(max_size)
ShrinkToFit(max_size) ==
    /\ Call
    /\ \E d \in ShrinkToFitFrom(CacheState, max_size) :
        /\ SetCache(d)
        /\ last' = [op |-> "shrink_to_fit", budget |-> max_size,
                    pops |-> d.pops, panic |-> d.panic]
    /\ max_size_in_bytes' = max_size
    /\ UNCHANGED <<inserted, whatVars>>

\* cache.get(key)
Get(key) ==
    /\ Call
    /\ LET g == GetFrom(CacheState, key)
       IN /\ SetCache(g.c)
          /\ last' = [op |-> "get", key |-> key, hit |-> g.hit, result |-> g.result,
                      pops |-> <<>>, panic |-> "none"]
    /\ UNCHANGED <<max_size_in_bytes, inserted, whatVars>>

NextLfu ==
    \/ \E k \in Keys, v \in Items, p \in Priorities : Insert(k, v, p)
    \/ \E k \in Keys : Get(k)
    \/ \E m \in Budgets : ShrinkToFit(m)

SpecLfu == InitLfu /\ [][NextLfu]_vars

(***************************************************************************)
(* What: identifiers, the path index, the backend and load_file            *)
(***************************************************************************)
\* Result<T, E>
Ok(x) == [ok |-> TRUE, v |-> x]

Err(kind) == [ok |-> FALSE, err |-> kind]

\* the identifier space (u32, cut down)
GuidSpace == 0..MaxGuid

\* (mutant) generate without the rejection of identifiers already issued
Generate_NoRejection(u) == GuidSpace

\* GuidGenerator::generate: the values the rejection loop can end on
Generate(u) == GuidSpace \ u

\* the logical paths callers ask for; those starting with "/" are absolute
Paths == {"a", "/b"}

IsAbsolute(p) == p \in {"/b"}

\* enum Location and Option<Location>
LocationFile == [kind |-> "File", base |-> "assets"]

LocationHttp == [kind |-> "Http", base |-> "origin"]

Locations == {None, Some(LocationFile), Some(LocationHttp)}

\* PathBuf::join: an absolute path replaces the base
PathJoin(base, p) == IF IsAbsolute(p) THEN <<p>> ELSE <<base, p>>

\* the file a path names for the loader and for the writers: joined to the
\* base of a File location, taken as given otherwise
Resolve(loc, p) ==
    IF loc.some /\ loc.v.kind = "File" THEN PathJoin(loc.v.base, p) ELSE <<p>>

\* every file the paths can name
Files == {<<p>> : p \in Paths} \cup {PathJoin(LocationFile.base, p) : p \in Paths}

\* the auxiliary blobs a Backend may hand back with the bytes it read: the
\* filesystem backend hands back none
AuxChoices ==
    IF backend = "fs" THEN {<<>>}
    ELSE {<<>>} \cup {<<[name |-> n, data |-> <<7>>]>> : n \in Paths}

\* (mutant) read_file_impl that reads a missing file as an empty one
ReadFileImpl_EmptyForMissing(f) ==
    {Ok([data |-> IF f \in DOMAIN fs THEN fs[f] ELSE <<>>, other |-> o]) : o \in AuxChoices}

\* read_file_impl
ReadFileImpl(f) ==
    IF f \notin DOMAIN fs THEN {Err("not_found")}
    ELSE {Ok([data |-> fs[f], other |-> o]) : o \in AuxChoices}

\* <What as Backend>::read_file; a Backend that fetches ("remote") may also
\* fail with an Error that is no Error::Io
ReadFile(loc, p) ==
    IF loc.some /\ loc.v.kind = "Http" THEN {Err("todo")}
    ELSE ReadFileImpl(Resolve(loc, p))
         \cup (IF backend = "remote" THEN {Err("unknown")} ELSE {})

\* the loader's own state with the cache state c inside it
WhatState == [used |-> used, paths |-> paths, c |-> CacheState,
              generated |-> <<>>, hung |-> FALSE]

\* the loop of load_file over the auxiliary blobs
RECURSIVE AuxLoop(_, _, _, _)
AuxLoop(w, max, other, priority) ==
    IF other = <<>> \/ w.hung \/ w.c.panic # "none" THEN {w}
    ELSE IF Generate(w.used) = {} THEN {[w EXCEPT !.hung = TRUE]}
    ELSE UNION {
        UNION {AuxLoop([w EXCEPT !.used = w.used \cup {guid},
                                 !.generated = Append(w.generated, guid),
                                 !.paths = MapInsert(w.paths, Head(other).name, guid),
                                 !.c = d],
                       max, Tail(other), priority)
               : d \in InsertFrom(w.c, max, guid, Head(other).data, priority)}
        : guid \in Generate(w.used)}

\* (mutant) load_file that returns what it read without caching it
LoadFileKeyed_SkipInsert(w, max, key, path, priority) ==
    LET g == GetFrom(w.c, key)
        out(v, res, hit, read) == [w |-> v, result |-> res, hit |-> hit, read |-> read]
    IN IF g.hit THEN {out([w EXCEPT !.c = g.c], Ok(g.result.v), TRUE, FALSE)}
       ELSE {IF ~r.ok
             THEN (IF r.err = "todo" THEN out([w EXCEPT !.c.panic = "todo"], r, FALSE, FALSE)
                   ELSE out(w, r, FALSE, TRUE))
             ELSE out(w, Ok(r.v.data), FALSE, TRUE)
             : r \in ReadFile(location, path)}

\* (mutant) load_file whose hit stores the priority it was called with
LoadFileKeyed_HitSetsPriority(w, max, key, path, priority) ==
    LET g == GetFrom(w.c, key)
        out(v, res, hit, read) == [w |-> v, result |-> res, hit |-> hit, read |-> read]
    IN IF g.hit
       THEN {out([w EXCEPT !.c = [g.c EXCEPT !.kv[key].priority = priority]],
                 Ok(g.result.v), TRUE, FALSE)}
       ELSE UNION {
            IF ~r.ok
            THEN {IF r.err = "todo" THEN out([w EXCEPT !.c.panic = "todo"], r, FALSE, FALSE)
                  ELSE out(w, r, FALSE, TRUE)}
            ELSE UNION {
                 {out(v, Ok(r.v.data), FALSE, TRUE)
                  : v \in AuxLoop([w EXCEPT !.c = d], max, r.v.other, priority)}
                 : d \in InsertFrom(w.c, max, key, r.v.data, priority)}
            : r \in ReadFile(location, path)}

\* What::load_file after the path has its identifier
LoadFileKeyed(w, max, key, path, priority) ==
    LET g == GetFrom(w.c, key)
        out(v, res, hit, read) == [w |-> v, result |-> res, hit |-> hit, read |-> read]
    IN IF g.hit THEN {out([w EXCEPT !.c = g.c], Ok(g.result.v), TRUE, FALSE)}
       ELSE UNION {
            IF ~r.ok
            THEN {IF r.err = "todo" THEN out([w EXCEPT !.c.panic = "todo"], r, FALSE, FALSE)
                  ELSE out(w, r, FALSE, TRUE)}
            ELSE UNION {
                 {out(v, Ok(r.v.data), FALSE, TRUE)
                  : v \in AuxLoop([w EXCEPT !.c = d], max, r.v.other, priority)}
                 : d \in InsertFrom(w.c, max, key, r.v.data, priority)}
            : r \in ReadFile(location, path)}

\* What::load_file from loader state w with cache budget max: its outcomes
LoadFileFrom(w, max, path, priority) ==
    IF path \in DOMAIN w.paths
    THEN LoadFileKeyed(w, max, w.paths[path], path, priority)
    ELSE IF Generate(w.used) = {}
    THEN {[w |-> [w EXCEPT !.hung = TRUE], result |-> Err("hung"),
           hit |-> FALSE, read |-> FALSE]}
    ELSE UNION {LoadFileKeyed([w EXCEPT !.used = w.used \cup {guid},
                                        !.generated = Append(w.generated, guid),
                                        !.paths = MapInsert(w.paths, path, guid)],
                              max, guid, path, priority)
                : guid \in Generate(w.used)}

\* the loader's variables after an operation that ended in loader state w
SetWhat(w) ==
    /\ used' = w.used
    /\ paths' = w.paths
    /\ size_in_bytes' = w.c.size
    /\ key_val' = w.c.kv
    /\ heap' = w.c.heap
    /\ status' = IF w.hung THEN "hung"
                 ELSE IF w.c.panic = "none" THEN "running" ELSE "panicked"

\* What::new(max_size, location), over a filesystem that holds some files
NewWhat(max_sizes) ==
    /\ size_in_bytes = 0
    /\ max_size_in_bytes \in max_sizes
    /\ key_val = <<>>
    /\ heap = EmptyBag
    /\ used = {}
    /\ paths = <<>>
    /\ location \in Locations
    /\ \E present \in SUBSET {Resolve(location, p) : p \in Paths} :
            fs = [f \in present |-> <<>>]
    /\ status = "running"
    /\ last = [op |-> "new", pops |-> <<>>, panic |-> "none"]
    /\ inserted = <<>>
    /\ fetched = <<>>
    /\ wrote = <<>>
    /\ calls = 0

InitWhat == NewWhat({ENTRY_OVERHEAD + 1, 2 * ENTRY_OVERHEAD + 1}) /\ asset = None

\* what.load_file(path, priority)
LoadFile(path, priority) ==
    /\ Call
    /\ \E o \in LoadFileFrom(WhatState, max_size_in_bytes, path, priority) :
        /\ SetWhat(o.w)
        /\ last' = [op |-> "load_file", path |-> path, priority |-> priority,
                    result |-> o.result, hit |-> o.hit, read |-> o.read,
                    generated |-> o.w.generated,
                    pops |-> o.w.c.pops, panic |-> o.w.c.panic]
        /\ fetched' = IF o.read /\ o.result.ok
                      THEN MapInsert(fetched, path, o.result.v) ELSE fetched
    /\ UNCHANGED <<max_size_in_bytes, location, fs, backend, inserted, wrote, asset>>

\* what.shrink_to_fit(max_size)
WhatShrinkToFit(max_size) == ShrinkToFit(max_size)

\* <What as Backend>::write_file(path, content, overwrite)
WriteFile(f, content, overwrite) ==
    /\ Call
    /\ IF f \in DOMAIN fs /\ ~overwrite
       THEN /\ last' = [op |-> "write_file", file |-> f, overwrite |-> overwrite,
                        result |-> Err("already_exists"), pops |-> <<>>, panic |-> "none"]
            /\ UNCHANGED <<fs, wrote>>
       ELSE /\ last' = [op |-> "write_file", file |-> f, overwrite |-> overwrite,
                        result |-> Ok(<<>>), pops |-> <<>>, panic |-> "none"]
            /\ fs' = MapInsert(fs, f, content)
            /\ wrote' = MapRemove(wrote, f)
    /\ UNCHANGED <<cacheVars, used, paths, location, backend, status, inserted, fetched,
                   asset>>

Next ==
    \/ \E p \in Paths, pr \in Priorities : LoadFile(p, pr)
    \/ \E m \in Budgets : WhatShrinkToFit(m)
    \/ \E p \in Paths, v \in Items, ow \in BOOLEAN : WriteFile(Resolve(location, p), v, ow)

\* the loader over the filesystem backend of the native build
Init == InitWhat /\ backend = "fs"

Spec == Init /\ [][Next]_vars

\* the loader over a Backend that may hand back auxiliary blobs
InitPrefetch == InitWhat /\ backend = "prefetch" /\ location = None

SpecPrefetch == InitPrefetch /\ [][Next]_vars

(***************************************************************************)
(* The container codec: an 8-byte little-endian length, the header as the  *)
(* JSON text serde_json writes for BaseHeader, then the payload.  Text is  *)
(* a sequence of bytes.  The reader takes the compact form the writer      *)
(* produces (no white space, fields in declaration order), numbers of at   *)
(* most nine digits and \u escapes below 128.                              *)
(***************************************************************************)
LitMajor == <<123, 34, 109, 97, 106, 111, 114, 34, 58>>          \* {"major":
LitMinor == <<44, 34, 109, 105, 110, 111, 114, 34, 58>>          \* ,"minor":
LitCtype == <<44, 34, 99, 116, 121, 112, 101, 34, 58, 123, 34>>  \* ,"ctype":{"
LitTexture ==                                                     \* Texture":{"width":
    <<84, 101, 120, 116, 117, 114, 101, 34, 58, 123, 34, 119, 105, 100, 116, 104, 34, 58>>
LitHeight == <<44, 34, 104, 101, 105, 103, 104, 116, 34, 58>>    \* ,"height":
LitFormat == <<44, 34, 102, 111, 114, 109, 97, 116, 34, 58>>     \* ,"format":
LitOffset == <<44, 34, 111, 102, 102, 115, 101, 116, 34, 58>>    \* ,"offset":
LitTextureArray ==                                                \* TextureArray":{"size":
    <<84, 101, 120, 116, 117, 114, 101, 65, 114, 114, 97, 121, 34, 58, 123, 34, 115, 105,
      122, 101, 34, 58>>
LitData == <<44, 34, 100, 97, 116, 97, 34, 58, 91>>              \* ,"data":[
LitKey == <<123, 34, 107, 101, 121, 34, 58>>                     \* {"key":
LitShader ==                                                      \* Shader":{"offset":
    <<83, 104, 97, 100, 101, 114, 34, 58, 123, 34, 111, 102, 102, 115, 101, 116, 34, 58>>
LitGltf ==                                                        \* Gltf":{"offset":
    <<71, 108, 116, 102, 34, 58, 123, 34, 111, 102, 102, 115, 101, 116, 34, 58>>
LitNull == <<110, 117, 108, 108>>                                \* null
LitClose == <<125, 125, 125>>                                    \* }}}

\* u64::to_le_bytes: the k low bytes of n, lowest first
RECURSIVE ToLeBytes(_, _)
ToLeBytes(n, k) == IF k = 0 THEN <<>> ELSE <<n % 256>> \o ToLeBytes(n \div 256, k - 1)

\* a length no buffer of the model reaches
HugeUsize == 256 * 256 * 256

\* u64::from_le_bytes(size_buf) as usize
FromLeBytes(b) ==
    IF \E i \in 4..8 : b[i] # 0 THEN HugeUsize
    ELSE b[1] + 256 * b[2] + 256 * 256 * b[3]

\* an unsigned integer as serde_json writes it
RECURSIVE ToDecimal(_)
ToDecimal(n) == IF n < 10 THEN <<48 + n>> ELSE ToDecimal(n \div 10) \o <<48 + (n % 10)>>

HexDigit(d) == IF d < 10 THEN 48 + d ELSE 87 + d

\* one character of a string as serde_json writes it
EscapeChar(c) ==
    IF c = 34 THEN <<92, 34>>
    ELSE IF c = 92 THEN <<92, 92>>
    ELSE IF c = 8 THEN <<92, 98>>
    ELSE IF c = 9 THEN <<92, 116>>
    ELSE IF c = 10 THEN <<92, 110>>
    ELSE IF c = 12 THEN <<92, 102>>
    ELSE IF c = 13 THEN <<92, 114>>
    ELSE IF c < 32 THEN <<92, 117, 48, 48, HexDigit(c \div 16), HexDigit(c % 16)>>
    ELSE <<c>>

RECURSIVE EscapeString(_)
EscapeString(str) ==
    IF str = <<>> THEN <<>> ELSE EscapeChar(Head(str)) \o EscapeString(Tail(str))

\* a String as serde_json writes it
JsonString(str) == <<34>> \o EscapeString(str) \o <<34>>

\* an Option<String> as serde_json writes it
JsonOptString(o) == IF o.some THEN JsonString(o.v) ELSE LitNull

\* the entries of HeaderTextureArray.data as serde_json writes them
RECURSIVE JsonEntries(_)
JsonEntries(es) ==
    IF es = <<>> THEN <<>>
    ELSE LitKey \o JsonString(Head(es).key) \o LitOffset \o ToDecimal(Head(es).offset)
         \o <<125>> \o (IF Len(es) > 1 THEN <<44>> ELSE <<>>) \o JsonEntries(Tail(es))

\* serde_json::to_string(&BaseHeader)
HeaderJson(h) ==
    LitMajor \o ToDecimal(h.major) \o LitMinor \o ToDecimal(h.minor) \o LitCtype \o
    (IF h.ctype.tag = "Texture"
     THEN LitTexture \o ToDecimal(h.ctype.width) \o LitHeight \o ToDecimal(h.ctype.height)
          \o LitFormat \o JsonOptString(h.ctype.format)
          \o LitOffset \o ToDecimal(h.ctype.offset)
     ELSE IF h.ctype.tag = "TextureArray"
     THEN LitTextureArray \o ToDecimal(h.ctype.size)
          \o LitFormat \o JsonOptString(h.ctype.format)
          \o LitData \o JsonEntries(h.ctype.data) \o <<93>>
     ELSE IF h.ctype.tag = "Shader"
     THEN LitShader \o ToDecimal(h.ctype.offset)
     ELSE LitGltf \o ToDecimal(h.ctype.offset))
    \o LitClose

\* the state of the reader: whether it still stands, where, and what it read
Fail == [ok |-> FALSE, pos |-> 0, v |-> <<>>]

\* the one value of a singleton; {e(x) : x \in {v}} evaluates v once, however
\* often e refers to x
Only(S) == CHOOSE x \in S : TRUE

StartsWith(s, pos, lit) ==
    /\ pos + Len(lit) - 1 <= Len(s)
    /\ SubSeq(s, pos, pos + Len(lit) - 1) = lit

\* read the literal text lit
ReadLit(s, state, lit) ==
    Only({IF r.ok /\ StartsWith(s, r.pos, lit) THEN [r EXCEPT !.pos = r.pos + Len(lit)]
          ELSE Fail
          : r \in {state}})

\* the position after the digits that start at pos
RECURSIVE DigitRun(_, _)
DigitRun(s, pos) ==
    IF pos <= Len(s) /\ s[pos] \in 48..57 THEN DigitRun(s, pos + 1) ELSE pos

RECURSIVE DecimalValue(_)
DecimalValue(d) ==
    IF d = <<>> THEN 0
    ELSE 10 * DecimalValue(SubSeq(d, 1, Len(d) - 1)) + (d[Len(d)] - 48)

\* u16::MAX
U16Max == 65535

\* the largest number of nine digits
MaxRead == 1000000000 - 1

\* read an unsigned integer of at most max into field name
ReadNumber(s, state, name, max) ==
    Only({IF ~r.ok THEN Fail
          ELSE Only({IF e = r.pos \/ e - r.pos > 9 \/ (e - r.pos > 1 /\ s[r.pos] = 48)
                     THEN Fail
                     ELSE Only({IF v > max THEN Fail
                                ELSE [ok |-> TRUE, pos |-> e, v |-> (name :> v) @@ r.v]
                                : v \in {DecimalValue(SubSeq(s, r.pos, e - 1))}})
                     : e \in {DigitRun(s, r.pos)}})
          : r \in {state}})

\* the character a one-letter escape stands for; 0 when there is none
Unescape(e) ==
    IF e \in {34, 92, 47} THEN e
    ELSE IF e = 98 THEN 8
    ELSE IF e = 102 THEN 12
    ELSE IF e = 110 THEN 10
    ELSE IF e = 114 THEN 13
    ELSE IF e = 116 THEN 9
    ELSE 0

HexValue(c) ==
    IF c \in 48..57 THEN c - 48
    ELSE IF c \in 97..102 THEN c - 87
    ELSE IF c \in 65..70 THEN c - 55
    ELSE 16

\* the characters of a string up to its closing quote
RECURSIVE ReadStringBody(_, _, _)
ReadStringBody(s, pos, acc) ==
    IF pos > Len(s) THEN Fail
    ELSE IF s[pos] = 34 THEN [ok |-> TRUE, pos |-> pos + 1, v |-> acc]
    ELSE IF s[pos] < 32 THEN Fail
    ELSE IF s[pos] # 92 THEN ReadStringBody(s, pos + 1, Append(acc, s[pos]))
    ELSE IF pos + 1 > Len(s) THEN Fail
    ELSE IF Unescape(s[pos + 1]) # 0
    THEN ReadStringBody(s, pos + 2, Append(acc, Unescape(s[pos + 1])))
    ELSE IF s[pos + 1] = 117 /\ pos + 5 <= Len(s)
            /\ s[pos + 2] = 48 /\ s[pos + 3] = 48
            /\ HexValue(s[pos + 4]) < 8 /\ HexValue(s[pos + 5]) < 16
    THEN ReadStringBody(s, pos + 6,
                        Append(acc, 16 * HexValue(s[pos + 4]) + HexValue(s[pos + 5])))
    ELSE Fail

\* read a String into field name
ReadString(s, state, name) ==
    Only({IF ~(r.ok /\ StartsWith(s, r.pos, <<34>>)) THEN Fail
          ELSE Only({IF ~b.ok THEN Fail
                     ELSE [ok |-> TRUE, pos |-> b.pos, v |-> (name :> b.v) @@ r.v]
                     : b \in {ReadStringBody(s, r.pos + 1, <<>>)}})
          : r \in {state}})

\* read an Option<String> into field name
ReadOptString(s, state, name) ==
    Only({IF r.ok /\ StartsWith(s, r.pos, LitNull)
          THEN [ok |-> TRUE, pos |-> r.pos + Len(LitNull), v |-> (name :> None) @@ r.v]
          ELSE Only({IF ~t.ok THEN Fail
                     ELSE [t EXCEPT !.v = (name :> Some(t.v[name])) @@ r.v]
                     : t \in {ReadString(s, r, name)}})
          : r \in {state}})

\* the entries of a TextureArray header, after the opening bracket
RECURSIVE ReadEntries(_, _, _)
ReadEntries(s, pos, acc) ==
    LET start == [ok |-> TRUE, pos |-> pos, v |-> <<>>]
        entry == ReadLit(s, ReadNumber(s, ReadLit(s, ReadString(s, ReadLit(s, start, LitKey),
                                                               "key"),
                                                  LitOffset),
                                       "offset", MaxRead),
                         <<125>>)
    IN Only({IF ~e.ok THEN Fail
             ELSE Only({IF StartsWith(s, e.pos, <<44>>) THEN ReadEntries(s, e.pos + 1, es)
                        ELSE IF StartsWith(s, e.pos, <<93>>)
                        THEN [ok |-> TRUE, pos |-> e.pos + 1, v |-> es]
                        ELSE Fail
                        : es \in {Append(acc, [key |-> e.v.key, offset |-> e.v.offset])}})
             : e \in {entry}})

\* read the Vec<HeaderEntry> into field name
ReadEntryList(s, state, name) ==
    Only({IF ~r.ok THEN Fail
          ELSE IF StartsWith(s, r.pos, <<93>>)
          THEN [ok |-> TRUE, pos |-> r.pos + 1, v |-> (name :> <<>>) @@ r.v]
          ELSE Only({IF ~es.ok THEN Fail
                     ELSE [ok |-> TRUE, pos |-> es.pos, v |-> (name :> es.v) @@ r.v]
                     : es \in {ReadEntries(s, r.pos, <<>>)}})
          : r \in {state}})

\* the whole text was read
ReadEnd(s, state) == Only({IF r.ok /\ r.pos = Len(s) + 1 THEN r ELSE Fail : r \in {state}})

\* the four variants of HeaderType, read from the state after "ctype"
ReadTexture(s, base) ==
    ReadNumber(s, ReadLit(s,
    ReadOptString(s, ReadLit(s,
    ReadNumber(s, ReadLit(s,
    ReadNumber(s, ReadLit(s, base, LitTexture), "width", MaxRead),
    LitHeight), "height", MaxRead),
    LitFormat), "format"),
    LitOffset), "offset", MaxRead)

ReadTextureArray(s, base) ==
    ReadEntryList(s, ReadLit(s,
    ReadOptString(s, ReadLit(s,
    ReadNumber(s, ReadLit(s, base, LitTextureArray), "size", MaxRead),
    LitFormat), "format"),
    LitData), "data")

ReadShader(s, base) == ReadNumber(s, ReadLit(s, base, LitShader), "offset", MaxRead)

ReadGltf(s, base) == ReadNumber(s, ReadLit(s, base, LitGltf), "offset", MaxRead)

\* the BaseHeader a finished reader holds
HeaderOf(tag, state) ==
    Only({IF ~r.ok THEN Err("json")
          ELSE Ok([major |-> r.v.major, minor |-> r.v.minor,
                   ctype |-> IF tag = "Texture"
                             THEN [tag |-> tag, width |-> r.v.width, height |-> r.v.height,
                                   format |-> r.v.format, offset |-> r.v.offset]
                             ELSE IF tag = "TextureArray"
                             THEN [tag |-> tag, size |-> r.v.size, format |-> r.v.format,
                                   data |-> r.v.data]
                             ELSE [tag |-> tag, offset |-> r.v.offset]])
          : r \in {state}})

\* serde_json::from_slice::<BaseHeader>
ParseHeader(text) ==
    LET start == [ok |-> TRUE, pos |-> 1, v |-> <<>>]
        head(s) == ReadLit(s, ReadNumber(s, ReadLit(s, ReadNumber(s, ReadLit(s, start, LitMajor),
                                                                   "major", U16Max),
                                                     LitMinor),
                                          "minor", U16Max),
                           LitCtype)
        done(s, r) == ReadEnd(s, ReadLit(s, r, LitClose))
    IN Only({Only({IF ~base.ok THEN Err("json")
                   ELSE IF StartsWith(s, base.pos, LitTextureArray)
                   THEN HeaderOf("TextureArray", done(s, ReadTextureArray(s, base)))
                   ELSE IF StartsWith(s, base.pos, LitTexture)
                   THEN HeaderOf("Texture", done(s, ReadTexture(s, base)))
                   ELSE IF StartsWith(s, base.pos, LitShader)
                   THEN HeaderOf("Shader", done(s, ReadShader(s, base)))
                   ELSE HeaderOf("Gltf", done(s, ReadGltf(s, base)))
                   : base \in {head(s)}})
             : s \in {text}})

\* VERSION_MAJOR, VERSION_MINOR
VERSION_MAJOR == 1

VERSION_MINOR == 0

\* (mutant) the length prefix written highest byte first
ContainerBytes_BigEndian(header, content) ==
    LET le == ToLeBytes(Len(header), 8)
    IN [i \in 1..8 |-> le[9 - i]] \o header \o content

\* write_asset: [&size.to_le_bytes(), header.as_bytes(), content].concat()
ContainerBytes(header, content) == ToLeBytes(Len(header), 8) \o header \o content

\* (mutant) write_asset without the test of the overwrite flag
WriteAsset_NoGate(output, header, content, overwrite) ==
    [file |-> Resolve(location, output), result |-> Ok(<<>>),
     fs |-> MapInsert(fs, Resolve(location, output), ContainerBytes(header, content))]

\* write_asset: where it writes, what it returns and the filesystem it leaves
\* (every path of the model has a parent folder, which can be created)
WriteAsset(output, header, content, overwrite) ==
    LET f == Resolve(location, output)
    IN IF f \in DOMAIN fs /\ ~overwrite
       THEN [file |-> f, result |-> Err("already_exists"), fs |-> fs]
       ELSE [file |-> f, result |-> Ok(<<>>),
             fs |-> MapInsert(fs, f, ContainerBytes(header, content))]

\* the header write_texture builds
TextureHeader(texture) ==
    [major |-> VERSION_MAJOR, minor |-> VERSION_MINOR,
     ctype |-> [tag |-> "Texture", width |-> texture.width, height |-> texture.height,
                format |-> texture.format, offset |-> 0]]

RECURSIVE Flatten(_)
Flatten(bufs) == IF bufs = <<>> THEN <<>> ELSE Head(bufs) \o Flatten(Tail(bufs))

\* (mutant) every entry given the offset of the first buffer
Entries_NoAccumulation(keys, data) == [i \in 1..Len(keys) |-> [key |-> keys[i], offset |-> 0]]

\* write_texture_array: the i-th entry starts where the buffers before it end
Entries(keys, data) ==
    [i \in 1..Len(keys) |-> [key |-> keys[i], offset |-> Len(Flatten(SubSeq(data, 1, i - 1)))]]

\* the header write_texture_array builds
TextureArrayHeader(textures) ==
    [major |-> VERSION_MAJOR, minor |-> VERSION_MINOR,
     ctype |-> [tag |-> "TextureArray", size |-> textures.size, format |-> textures.format,
                data |-> Entries(textures.keys, textures.data)]]

\* the header write_shader builds
ShaderHeader ==
    [major |-> VERSION_MAJOR, minor |-> VERSION_MINOR, ctype |-> [tag |-> "Shader", offset |-> 0]]

\* write_shader: every word as its four bytes, lowest first
RECURSIVE RawShader(_)
RawShader(words) ==
    IF words = <<>> THEN <<>> ELSE ToLeBytes(Head(words), 4) \o RawShader(Tail(words))

\* the part of load_asset after load_file has returned data: an index out of
\* the slice's range is a panic
Decoded(panic, result) == [panic |-> panic, result |-> result]

\* (mutant) a reader that lets every blob run to the end of the data
DecodeTextureArray_ToEnd(data, header_end, meta) ==
    LET n == Len(meta.data)
        start(i) == header_end + meta.data[i].offset
    IN IF \E i \in 1..n : start(i) > Len(data)
       THEN Decoded("slice", Err("panic"))
       ELSE Decoded("none",
                    Ok([tag |-> "TextureArray", size |-> meta.size, format |-> meta.format,
                        keys |-> [i \in 1..n |-> meta.data[i].key],
                        data |-> [i \in 1..n |-> SubSeq(data, start(i) + 1, Len(data))]]))

\* data[start..end] for every entry of a TextureArray header
DecodeTextureArray(data, header_end, meta) ==
    LET n == Len(meta.data)
        start(i) == header_end + meta.data[i].offset
        end_offset(i) == IF i + 1 > n THEN Len(data) ELSE header_end + meta.data[i + 1].offset
    IN IF \E i \in 1..n : start(i) > end_offset(i) \/ end_offset(i) > Len(data)
       THEN Decoded("slice", Err("panic"))
       ELSE Decoded("none",
                    Ok([tag |-> "TextureArray", size |-> meta.size, format |-> meta.format,
                        keys |-> [i \in 1..n |-> meta.data[i].key],
                        data |-> [i \in 1..n |-> SubSeq(data, start(i) + 1, end_offset(i))]]))

\* u32::from_le_bytes (words below 2^31, the integers of the checker)
WordFromLe(b) == b[1] + 256 * b[2] + 256 * 256 * b[3] + 256 * 256 * 256 * b[4]

\* (mutant) a reader that takes the words highest byte first
ShaderWords_BigEndian(b) ==
    [i \in 1..(Len(b) \div 4) |->
        WordFromLe(<<b[4 * i], b[4 * i - 1], b[4 * i - 2], b[4 * i - 3]>>)]

\* the words read_u32::<LittleEndian> reads until it meets an error: the end of
\* the data, or fewer than four bytes left
RECURSIVE ShaderWords(_)
ShaderWords(b) ==
    IF Len(b) < 4 THEN <<>>
    ELSE <<WordFromLe(SubSeq(b, 1, 4))>> \o ShaderWords(SubSeq(b, 5, Len(b)))

\* the asset a parsed header and the bytes after it make
DecodeBody(data, header_end, ctype) ==
    LET rest == SubSeq(data, header_end + ctype.offset + 1, Len(data))
    IN IF ctype.tag = "TextureArray" THEN DecodeTextureArray(data, header_end, ctype)
       ELSE IF header_end + ctype.offset > Len(data) THEN Decoded("slice", Err("panic"))
       ELSE IF ctype.tag = "Texture"
       THEN Decoded("none", Ok([tag |-> "Texture", width |-> ctype.width,
                                height |-> ctype.height, format |-> ctype.format,
                                data |-> rest]))
       ELSE IF ctype.tag = "Shader"
       THEN Decoded("none", Ok([tag |-> "Shader", data |-> ShaderWords(rest)]))
       ELSE Decoded("none", Ok([tag |-> "Gltf", slice |-> rest]))

DecodeAsset(data) ==
    IF Len(data) < 8 THEN Decoded("slice", Err("panic"))
    ELSE Only({IF header_end > Len(data) THEN Decoded("slice", Err("panic"))
               ELSE Only({IF ~meta.ok THEN Decoded("none", meta)
                          ELSE DecodeBody(data, header_end, meta.v.ctype)
                          : meta \in {ParseHeader(SubSeq(data, 9, header_end))}})
               : header_end \in {8 + FromLeBytes(SubSeq(data, 1, 8))}})

\* (mutant) write_texture that drops the cache entry of the path it writes
WriteTexture_Invalidates(output, texture, overwrite) ==
    /\ Call
    /\ \E r \in {WriteAsset(output, HeaderJson(TextureHeader(texture)), texture.data,
                           overwrite)} :
          /\ fs' = r.fs
          /\ wrote' = IF r.result.ok THEN MapInsert(wrote, r.file, texture) ELSE wrote
          /\ last' = [op |-> "write_texture", file |-> r.file, overwrite |-> overwrite,
                      result |-> r.result, pops |-> <<>>, panic |-> "none"]
    /\ key_val' = IF output \in DOMAIN paths THEN MapRemove(key_val, paths[output])
                  ELSE key_val
    /\ UNCHANGED <<size_in_bytes, max_size_in_bytes, heap, used, paths, location, backend,
                   status, inserted, fetched, asset>>

\* what.write_texture(output, texture, overwrite), which convert_texture ends in
WriteTexture(output, texture, overwrite) ==
    /\ Call
    /\ \E r \in {WriteAsset(output, HeaderJson(TextureHeader(texture)), texture.data,
                           overwrite)} :
          /\ fs' = r.fs
          /\ wrote' = IF r.result.ok THEN MapInsert(wrote, r.file, texture) ELSE wrote
          /\ last' = [op |-> "write_texture", file |-> r.file, overwrite |-> overwrite,
                      result |-> r.result, pops |-> <<>>, panic |-> "none"]
    /\ UNCHANGED <<cacheVars, used, paths, location, backend, status, inserted, fetched,
                   asset>>

\* what.write_texture_array(output, textures, overwrite), which convert_cubemap and
\* convert_texture_array end in
WriteTextureArray(output, textures, overwrite) ==
    /\ Call
    /\ \E r \in {IF Len(textures.keys) # Len(textures.data)
                 THEN [file |-> Resolve(location, output), result |-> Err("length"),
                       fs |-> fs]
                 ELSE WriteAsset(output, HeaderJson(TextureArrayHeader(textures)),
                                 Flatten(textures.data), overwrite)} :
          /\ fs' = r.fs
          /\ wrote' = IF r.result.ok THEN MapInsert(wrote, r.file, textures) ELSE wrote
          /\ last' = [op |-> "write_texture_array", file |-> r.file, overwrite |-> overwrite,
                      result |-> r.result, pops |-> <<>>, panic |-> "none"]
    /\ UNCHANGED <<cacheVars, used, paths, location, backend, status, inserted, fetched,
                   asset>>

\* what.write_shader(output, shader, overwrite), which convert_shader ends in
WriteShader(output, shader, overwrite) ==
    /\ Call
    /\ \E r \in {WriteAsset(output, HeaderJson(ShaderHeader), RawShader(shader.data),
                           overwrite)} :
          /\ fs' = r.fs
          /\ wrote' = IF r.result.ok THEN MapInsert(wrote, r.file, shader) ELSE wrote
          /\ last' = [op |-> "write_shader", file |-> r.file, overwrite |-> overwrite,
                      result |-> r.result, pops |-> <<>>, panic |-> "none"]
    /\ UNCHANGED <<cacheVars, used, paths, location, backend, status, inserted, fetched,
                   asset>>

\* the paths a glTF document asks its importer to resolve, in order: in the
\* model a document is a list of bytes, 1 for a reference to "a", 2 for one to
\* "/b"; any other byte makes the document invalid
GltfUris(slice) ==
    IF \A i \in 1..Len(slice) : slice[i] \in {1, 2}
    THEN Ok([i \in 1..Len(slice) |-> IF slice[i] = 1 THEN "a" ELSE "/b"])
    ELSE Err("gltf")

\* the error kinds that are Error::Io
IoErrors == {"not_found"}

\* the callback load_asset gives the importer, after its load_file ended in o:
\* Err(Error::Io) goes back to the importer as an error, which ends the
\* import; every other result is unwrapped
ImportStep(o, sub) ==
    IF o.w.hung \/ o.w.c.panic # "none"
    THEN [stop |-> TRUE, w |-> o.w, result |-> Err("panic"), sub |-> sub]
    ELSE IF o.result.ok
    THEN [stop |-> FALSE, w |-> o.w, result |-> o.result, sub |-> Append(sub, o.result)]
    ELSE IF o.result.err \in IoErrors
    THEN [stop |-> TRUE, w |-> o.w, result |-> Err("gltf"), sub |-> Append(sub, o.result)]
    ELSE [stop |-> TRUE, w |-> [o.w EXCEPT !.c.panic = "unwrap"], result |-> Err("panic"),
          sub |-> Append(sub, o.result)]

\* (mutant) an importer whose callback loads through a loader of its own,
\* which is dropped when the import ends
RECURSIVE ImportLoop_Detached(_, _, _, _, _, _)
ImportLoop_Detached(w, max, uris, priority, buffers, sub) ==
    IF uris = <<>>
    THEN {[w |-> w, result |-> Ok([tag |-> "Gltf", buffers |-> buffers]), sub |-> sub]}
    ELSE UNION {
         UNION {IF step.stop THEN {[w |-> step.w, result |-> step.result, sub |-> step.sub]}
                ELSE ImportLoop_Detached(w, max, Tail(uris), priority,
                                         Append(buffers, step.result.v), step.sub)
                : step \in {ImportStep(o, sub)}}
         : o \in LoadFileFrom(w, max, Head(uris), priority)}

\* gltf::import_slice calling back for every path the document names
RECURSIVE ImportLoop(_, _, _, _, _, _)
ImportLoop(w, max, uris, priority, buffers, sub) ==
    IF uris = <<>>
    THEN {[w |-> w, result |-> Ok([tag |-> "Gltf", buffers |-> buffers]), sub |-> sub]}
    ELSE UNION {
         UNION {IF step.stop THEN {[w |-> step.w, result |-> step.result, sub |-> step.sub]}
                ELSE ImportLoop(step.w, max, Tail(uris), priority,
                                Append(buffers, step.result.v), step.sub)
                : step \in {ImportStep(o, sub)}}
         : o \in LoadFileFrom(w, max, Head(uris), priority)}

\* load_asset after load_file has ended in o: its outcomes
LoadAssetAfter(o, max, priority) ==
    IF ~(o.result.ok /\ o.w.c.panic = "none" /\ ~o.w.hung)
    THEN {[w |-> o.w, result |-> o.result, loaded |-> None, sub |-> <<>>]}
    ELSE UNION {
         IF dec.panic # "none"
         THEN {[w |-> [o.w EXCEPT !.c.panic = dec.panic], result |-> dec.result,
                loaded |-> Some(o.result.v), sub |-> <<>>]}
         ELSE IF ~(dec.result.ok /\ dec.result.v.tag = "Gltf")
         THEN {[w |-> o.w, result |-> dec.result, loaded |-> Some(o.result.v), sub |-> <<>>]}
         ELSE UNION {
              IF ~uris.ok
              THEN {[w |-> o.w, result |-> uris, loaded |-> Some(o.result.v), sub |-> <<>>]}
              ELSE {[w |-> i.w, result |-> i.result, loaded |-> Some(o.result.v),
                     sub |-> i.sub]
                    : i \in ImportLoop(o.w, max, uris.v, priority, <<>>, <<>>)}
              : uris \in {GltfUris(dec.result.v.slice)}}
         : dec \in {DecodeAsset(o.result.v)}}

\* what.load_asset(path, priority)
LoadAsset(path, priority) ==
    /\ Call
    /\ \E o \in LoadFileFrom(WhatState, max_size_in_bytes, path, priority) :
       \E a \in LoadAssetAfter(o, max_size_in_bytes, priority) :
           /\ SetWhat(a.w)
           /\ last' = [op |-> "load_asset", path |-> path, priority |-> priority,
                       loaded |-> a.loaded, sub |-> a.sub,
                       result |-> a.result, hit |-> o.hit, read |-> o.read,
                       generated |-> a.w.generated, pops |-> a.w.c.pops,
                       panic |-> a.w.c.panic]
           /\ fetched' = IF o.read /\ o.result.ok
                         THEN MapInsert(fetched, path, o.result.v) ELSE fetched
    /\ UNCHANGED <<max_size_in_bytes, location, fs, backend, inserted, wrote, asset>>

\* the textures and texture arrays callers hand to the writers
Formats == {None, Some(<<112, 110, 103>>), Some(<<34, 92, 10>>)}

Textures ==
    {[tag |-> "Texture", width |-> 512, height |-> 256, format |-> f, data |-> b]
     : f \in Formats, b \in {<<>>, <<255, 10>>}}
    \cup {[tag |-> "Texture", width |-> 0, height |-> 0, format |-> None, data |-> <<>>]}

KeyLists == {<<>>, <<<<43, 120>>>>, <<<<43, 120>>, <<45, 120>>>>, <<<<43, 120>>, <<43, 120>>>>}

BufferLists == {<<>>, <<<<7>>>>, <<<<>>, <<7>>>>, <<<<7>>, <<>>>>, <<<<1, 2>>, <<7>>>>}

\* keys with as many buffers, and one list of keys with too few
KeysAndBuffers ==
    {kb \in KeyLists \X BufferLists :
        Len(kb[2]) = Len(kb[1]) \/ (Len(kb[1]) = 1 /\ kb[2] = <<>>)}

TextureArrays ==
    {[tag |-> "TextureArray", size |-> 512, format |-> Some(<<112, 110, 103>>),
      keys |-> kb[1], data |-> kb[2]] : kb \in KeysAndBuffers}
    \cup {[tag |-> "TextureArray", size |-> 0, format |-> None, keys |-> <<>>, data |-> <<>>]}

\* the shaders callers hand to write_shader (SPIR-V starts with 0x07230203)
Shaders ==
    {[tag |-> "Shader", data |-> w] : w \in {<<>>, <<119734787>>, <<65536, 1, 119734787>>}}

\* a file made by hand: a header, or text in its place, and the bytes after it
Raw(header, payload) ==
    [tag |-> "Raw", header |-> header, payload |-> payload,
     bytes |-> ContainerBytes(header, payload)]

\* a shader container whose payload ends in the middle of a word
PartialShaders == {Raw(HeaderJson(ShaderHeader), <<3, 2, 35, 7, 1, 0>>)}

\* a hand-made container with header h, which the record keeps as meta
Container(h, payload) == ("meta" :> h) @@ Raw(HeaderJson(h), payload)

\* a hand-made file that is no container, of the given kind
Malformed(kind, bytes) == [tag |-> "Raw", kind |-> kind, bytes |-> bytes]

\* a texture header with the given payload offset
OffsetHeader(offset) ==
    [major |-> VERSION_MAJOR, minor |-> VERSION_MINOR,
     ctype |-> [tag |-> "Texture", width |-> 1, height |-> 1, format |-> None,
                offset |-> offset]]

\* a texture array header whose second entry starts before the first
DecreasingHeader ==
    [major |-> VERSION_MAJOR, minor |-> VERSION_MINOR,
     ctype |-> [tag |-> "TextureArray", size |-> 1, format |-> None,
                data |-> <<[key |-> <<43, 120>>, offset |-> 1],
                           [key |-> <<45, 120>>, offset |-> 0]>>]]

\* the files load_asset can be given that are no well-formed container: fewer
\* than 8 bytes, a header length past the end of the data, a header that does
\* not parse, a payload offset past the end of the data, offsets that decrease
MalformedFiles ==
    {Malformed("short", <<>>), Malformed("short", <<2, 0, 0, 0, 0, 0, 0>>),
     Malformed("header_past_end", ToLeBytes(3, 8) \o <<123, 125>>),
     Malformed("unparsable", ContainerBytes(<<123, 125>>, <<7>>)),
     Malformed("offset_past_end", ContainerBytes(HeaderJson(OffsetHeader(2)), <<7>>)),
     Malformed("decreasing_offsets", ContainerBytes(HeaderJson(DecreasingHeader), <<7, 7>>))}

\* a texture array header with the given entry offsets
ArrayHeader(offsets) ==
    [major |-> VERSION_MAJOR, minor |-> VERSION_MINOR,
     ctype |-> [tag |-> "TextureArray", size |-> 1, format |-> None,
                data |-> [i \in 1..Len(offsets) |->
                            [key |-> <<42 + i>>, offset |-> offsets[i]]]]]

\* hand-made texture arrays over a payload of three bytes: two blobs that
\* tile it, an empty blob after a skipped byte, one blob that starts late
SlicedArrays ==
    {Container(ArrayHeader(o), <<5, 6, 7>>) : o \in {<<0, 2>>, <<1, 1>>, <<2>>}}

\* well-formed texture containers that declare the given versions
VersionedFiles ==
    {Container([OffsetHeader(0) EXCEPT !.major = v[1], !.minor = v[2]], <<7>>)
     : v \in {<<VERSION_MAJOR, VERSION_MINOR>>, <<VERSION_MAJOR, VERSION_MINOR + 1>>,
              <<VERSION_MAJOR + 1, VERSION_MINOR>>, <<0, VERSION_MINOR>>}}

\* What::new with a budget that holds the containers of the model, over a
\* filesystem where the output may already exist, and a caller holding one
\* of the given assets
NewCodec(assets) ==
    /\ NewWhat({UsizeModulus - 1})
    /\ backend = "fs"
    /\ location # Some(LocationHttp)
    /\ DOMAIN fs \in {{}, {Resolve(location, p) : p \in Paths}}
    /\ asset \in assets

InitCodec ==
    NewCodec(Textures \cup TextureArrays \cup Shaders \cup PartialShaders \cup SlicedArrays)

NextCodec ==
    \/ asset.tag = "Texture" /\ \E p \in Paths, ow \in BOOLEAN : WriteTexture(p, asset, ow)
    \/ asset.tag = "TextureArray"
        /\ \E p \in Paths, ow \in BOOLEAN : WriteTextureArray(p, asset, ow)
    \/ asset.tag = "Shader" /\ \E p \in Paths, ow \in BOOLEAN : WriteShader(p, asset, ow)
    \/ asset.tag = "Raw"
        /\ \E p \in Paths, ow \in BOOLEAN : WriteFile(Resolve(location, p), asset.bytes, ow)
    \/ \E p \in Paths, pr \in Priorities : LoadAsset(p, pr)

SpecCodec == InitCodec /\ [][NextCodec]_vars

\* a loader whose caller writes one asset and loads files by path
InitWrite ==
    NewCodec({[tag |-> "Texture", width |-> 1, height |-> 1, format |-> None,
               data |-> <<7>>],
              [tag |-> "TextureArray", size |-> 1, format |-> None,
               keys |-> <<<<43, 120>>>>, data |-> <<<<7>>>>],
              [tag |-> "Shader", data |-> <<119734787>>]})

NextWrite ==
    \/ asset.tag = "Texture" /\ \E p \in Paths, ow \in BOOLEAN : WriteTexture(p, asset, ow)
    \/ asset.tag = "TextureArray"
        /\ \E p \in Paths, ow \in BOOLEAN : WriteTextureArray(p, asset, ow)
    \/ asset.tag = "Shader" /\ \E p \in Paths, ow \in BOOLEAN : WriteShader(p, asset, ow)
    \/ \E p \in Paths, pr \in Priorities : LoadFile(p, pr)
    \/ \E m \in {0, UsizeModulus - 1} : WhatShrinkToFit(m)

SpecWrite == InitWrite /\ [][NextWrite]_vars

\* the reader given hand-made files
InitDecode == NewCodec(MalformedFiles \cup VersionedFiles)

NextDecode ==
    \/ \E p \in Paths, ow \in BOOLEAN : WriteFile(Resolve(location, p), asset.bytes, ow)
    \/ \E p \in Paths, pr \in Priorities : LoadAsset(p, pr)

SpecDecode == InitDecode /\ [][NextDecode]_vars

\* the header of a Gltf container
GltfHeader ==
    [major |-> VERSION_MAJOR, minor |-> VERSION_MINOR, ctype |-> [tag |-> "Gltf", offset |-> 0]]

\* Gltf containers whose documents name no, one or two sub-resources
GltfFiles == {Container(GltfHeader, d) : d \in {<<>>, <<2>>, <<1, 2>>}}

\* the reader given composite containers, over the filesystem backend or a
\* Backend that fetches
InitGltf ==
    /\ NewWhat({UsizeModulus - 1})
    /\ backend \in {"fs", "remote"}
    /\ location # Some(LocationHttp)
    /\ DOMAIN fs \in {{}, {Resolve(location, p) : p \in Paths}}
    /\ asset \in GltfFiles

SpecGltf == InitGltf /\ [][NextDecode]_vars

(***************************************************************************)
(* Claims about the cache, checked under SpecLfu.                          *)
(***************************************************************************)
\* the events of the eviction loop run by the last call
Pops == {last.pops[i] : i \in DOMAIN last.pops}

\* (priority, frequency) pairs in lexicographic order
PairLeq(a, b) == a[1] < b[1] \/ (a[1] = b[1] /\ a[2] <= b[2])

\* C1: whenever a call of insert, get or shrink_to_fit has returned, the
\* running total is at most the configured budget.
C1_BudgetInvariant ==
    status = "running" => size_in_bytes <= max_size_in_bytes

\* C1 witness: an insert returned after evicting an entry to make room.
C1_Witness ==
    /\ status = "running"
    /\ last.op = "insert"
    /\ \E e \in Pops : e.kind = "evict"
    /\ size_in_bytes > 0

\* C2: no pop of shrink_to_fit meets a record whose key was already removed
\* (a second removal of k), and discarding a stale record leaves the running
\* total as it was.
C2_StaleEntrySafety ==
    \A e \in Pops :
        /\ e.present
        /\ e.kind = "stale" => e.size_after = e.size_before

\* C3: a get that hits returns the item last inserted under that key, and
\* every cached key holds the item last inserted under it.
C3_HitEquivalence ==
    /\ (last.op = "get" /\ last.hit) =>
            /\ last.key \in DOMAIN inserted
            /\ last.result = Some(inserted[last.key])
    /\ status = "running" =>
            \A k \in DOMAIN key_val : k \in DOMAIN inserted /\ key_val[k].item = inserted[k]

\* C3 witness: a get hits one key after the other key was inserted with a
\* different item and evicted again.
C3_Witness ==
    /\ last.op = "get" /\ last.hit
    /\ \E k \in DOMAIN inserted :
          /\ k \notin DOMAIN key_val
          /\ inserted[k] # inserted[last.key]

\* C4: insert aborts on its capacity check exactly when the item's size plus
\* the per-entry overhead exceeds the budget, and then nothing of the cache
\* has changed.
C4_CapacityCheck ==
    [][(last'.op = "insert" /\ calls' = calls + 1) =>
          /\ (last'.panic = "too_large") <=>
                (ItemSize(last'.item) + ENTRY_OVERHEAD > max_size_in_bytes)
          /\ (last'.panic = "too_large") =>
                /\ status' = "panicked"
                /\ UNCHANGED cacheVars]_vars

\* C4 witness: an insert into a non-empty cache aborted on the capacity check.
C4_Witness ==
    /\ last.op = "insert"
    /\ last.panic = "too_large"
    /\ DOMAIN key_val # {}

\* C5: every record that evicts carries a (priority, frequency) pair that is
\* greatest among the pairs of all entries in the table at that step.
C5_EvictionOrder ==
    \A e \in Pops :
        e.kind = "evict" =>
            \A pr \in e.live : PairLeq(pr, <<e.rec.priority, e.rec.frequency>>)

\* C5 witness: an eviction chose between entries with different pairs.
C5_Witness ==
    \E e \in Pops : e.kind = "evict" /\ Cardinality(e.live) >= 2

(***************************************************************************)
(* Claims about the loader, checked under Spec and SpecPrefetch.           *)
(***************************************************************************)
\* C6: across load_file calls, also those whose backend result carries
\* auxiliary blobs, a path keeps the identifier it was given, no path leaves
\* the path index, and two paths never share an identifier.
C6_InterningStability ==
    [][/\ \A p \in DOMAIN paths : p \in DOMAIN paths' /\ paths'[p] = paths[p]
       /\ \A p, q \in DOMAIN paths' : p # q => paths'[p] # paths'[q]]_vars

\* C7: every identifier generate returns during a call was not issued before
\* and differs from the others returned in that call, and the set of issued
\* identifiers only grows.
C7_FreshIdentifiers ==
    [][/\ used \subseteq used'
       /\ (calls' = calls + 1 /\ last'.op = "load_file") =>
            \A i \in DOMAIN last'.generated :
                /\ last'.generated[i] \notin used
                /\ last'.generated[i] \in used'
                /\ \A j \in DOMAIN last'.generated :
                        j # i => last'.generated[j] # last'.generated[i]]_vars

\* C7 witness: generate returned an identifier when another was already issued.
C7_Witness ==
    /\ last.op = "load_file"
    /\ last.generated # <<>>
    /\ Cardinality(used) >= 2

\* C8: a load_file that returns consults the backend exactly when the path
\* has no entry in the cache; on a hit it returns the bytes read at the
\* path's last miss, on a miss the file's bytes, which it leaves cached
\* under the path's identifier.
C8_Memoization ==
    [][(calls' = calls + 1 /\ last'.op = "load_file" /\ status' = "running") =>
        LET p == last'.path
            cached == p \in DOMAIN paths /\ paths[p] \in DOMAIN key_val
        IN /\ last'.read = ~cached
           /\ last'.hit = cached
           /\ last'.result.ok =>
                /\ cached =>
                     /\ p \in DOMAIN fetched
                     /\ last'.result.v = fetched[p]
                /\ ~cached =>
                     /\ Resolve(location, p) \in DOMAIN fs
                     /\ last'.result.v = fs[Resolve(location, p)]
                     /\ paths'[p] \in DOMAIN key_val'
                     /\ key_val'[paths'[p]].item = last'.result.v]_vars

\* C8 witness: a hit returned the bytes of the last miss although the file
\* has other bytes by now, after an earlier entry of the path was evicted.
C8_Witness ==
    /\ last.op = "load_file"
    /\ last.hit
    /\ Resolve(location, last.path) \in DOMAIN fs
    /\ last.result.v # fs[Resolve(location, last.path)]


\* C15: load_file on a path whose resolved file does not exist returns a
\* not-found error and does not abort; the cache's table, queue, running total
\* and budget are as before the call.
C15_NotFound ==
    [][(/\ calls' = calls + 1
        /\ last'.op = "load_file"
        /\ location # Some(LocationHttp)
        /\ Resolve(location, last'.path) \notin DOMAIN fs) =>
            /\ last'.result = Err("not_found")
            /\ last'.panic = "none"
            /\ status' = "running"
            /\ UNCHANGED cacheVars]_vars

\* C15 witness: a missing file was asked for while the cache held an entry.
C15_Witness ==
    /\ last.op = "load_file"
    /\ last.result = Err("not_found")
    /\ Resolve(location, last.path) \notin DOMAIN fs
    /\ DOMAIN key_val # {}

\* C18: a get that hits (load_file served from the cache) raises the stored
\* frequency of its key by exactly one and pushes one record with the new
\* (frequency, priority); a get that misses changes nothing (seen when the
\* read that follows fails); and no other operation changes the stored
\* frequency of a key.
C18_FrequencyOnlyByGet ==
    [][calls' = calls + 1 =>
        /\ (last'.op = "load_file" /\ last'.hit) =>
              /\ last'.path \in DOMAIN paths
              /\ paths[last'.path] \in DOMAIN key_val
              /\ LET k == paths[last'.path]
                     e == key_val[k]
                 IN /\ key_val' = [key_val EXCEPT ![k].frequency = e.frequency + 1]
                    /\ heap' = HeapPush(heap, CacheEntry(k, e.frequency + 1, e.priority))
                    /\ size_in_bytes' = size_in_bytes
        /\ (last'.op = "load_file" /\ ~last'.hit /\ ~last'.result.ok
                /\ last'.panic = "none") =>
              UNCHANGED cacheVars
        /\ \A k \in DOMAIN key_val \cap DOMAIN key_val' :
              key_val'[k].frequency # key_val[k].frequency =>
                  /\ last'.op = "load_file"
                  /\ last'.hit
                  /\ paths[last'.path] = k]_vars

\* C18 witness: a second hit on the same key took its frequency to two.
C18_Witness ==
    /\ last.op = "load_file"
    /\ last.hit
    /\ key_val[paths[last.path]].frequency = 2
    /\ CacheEntry(paths[last.path], 2, key_val[paths[last.path]].priority) \in DOMAIN heap

\* the popped record of event e carries the (frequency, priority) the table
\* holds for its key
Matches(e) ==
    /\ e.rec.key \in DOMAIN e.table_before
    /\ e.rec.frequency = e.table_before[e.rec.key].frequency
    /\ e.rec.priority = e.table_before[e.rec.key].priority

\* C19: in shrink_to_fit a popped record that does not match the table's
\* current (frequency, priority) for its key is discarded with the table and
\* the running total left as they were before the pop; a record that matches
\* evicts: its entry leaves the table and its size (item plus per-entry
\* overhead) is subtracted from the running total.
C19_StaleDiscard ==
    \A e \in Pops :
        IF Matches(e)
        THEN /\ e.kind = "evict"
             /\ e.table_after = MapRemove(e.table_before, e.rec.key)
             /\ e.size_after = e.size_before
                    - (ItemSize(e.table_before[e.rec.key].item) + ENTRY_OVERHEAD)
        ELSE /\ e.kind = "stale"
             /\ e.table_after = e.table_before
             /\ e.size_after = e.size_before

\* C19, the half that holds: a matching record evicts its entry and takes
\* its size off the running total.
C19_MatchEvicts ==
    \A e \in Pops :
        Matches(e) =>
             /\ e.kind = "evict"
             /\ e.table_after = MapRemove(e.table_before, e.rec.key)
             /\ e.size_after = e.size_before
                    - (ItemSize(e.table_before[e.rec.key].item) + ENTRY_OVERHEAD)

\* C20: shrink_to_fit, called directly or from insert, never faults: the
\* queue is not empty while the running total exceeds the budget, the key of
\* every popped record is in the table when it is looked up, and no
\* subtraction takes the running total below zero.
C20_ShrinkNeverFaults ==
    /\ last.panic \notin {"unwrap", "missing", "overflow"}
    /\ \A e \in Pops : e.kind \notin {"missing", "overflow"}

\* the bytes the table accounts for: item size plus overhead of every entry
RECURSIVE HeldBytes(_)
HeldBytes(kv) ==
    IF DOMAIN kv = {} THEN 0
    ELSE LET k == CHOOSE x \in DOMAIN kv : TRUE
         IN ItemSize(kv[k].item) + ENTRY_OVERHEAD + HeldBytes(MapRemove(kv, k))

\* C21: after every call of insert, get or shrink_to_fit that returned, the
\* running total equals the sum over the cached entries of item size plus
\* per-entry overhead.
C21_AccountingExact ==
    status = "running" => size_in_bytes = HeldBytes(key_val)

\* C22: whenever insert(k, v, p) has returned, k is cached with item v,
\* frequency 0 and priority p, whatever the eviction inside the insert
\* removed and whether or not k was cached before.
C22_InsertedEntryStays ==
    (last.op = "insert" /\ last.panic = "none") =>
        /\ last.key \in DOMAIN key_val
        /\ key_val[last.key] = [item |-> last.item, frequency |-> 0,
                                priority |-> last.priority]

\* C22 witness: an insert over a cached key that had been hit replaced its
\* item and priority and restarted its frequency.
C22_Witness ==
    /\ last.op = "insert" /\ last.panic = "none"
    /\ last.before.some
    /\ last.before.v.frequency > 0
    /\ last.before.v.item # last.item
    /\ last.before.v.priority # last.priority
    /\ key_val[last.key].frequency = 0

\* C22 witness: an insert evicted another entry to make room and the
\* inserted key is cached.
C22_WitnessEviction ==
    /\ last.op = "insert" /\ last.panic = "none"
    /\ \E e \in Pops : e.kind = "evict" /\ e.rec.key # last.key
    /\ last.key \in DOMAIN key_val

\* the cached keys with the item and the priority stored under each
Stored(kv) == [k \in DOMAIN kv |-> [item |-> kv[k].item, priority |-> kv[k].priority]]

\* C23: a lookup evicts nothing: a load_file served from the cache (a get
\* that hits), whatever priority it is called with, and a load_file whose get
\* misses and whose read fails (a get that misses and nothing more) leave
\* the cached keys, every stored item and priority, the running total and
\* the budget as they were.
C23_LookupEvictsNothing ==
    [][(/\ calls' = calls + 1
        /\ last'.op = "load_file"
        /\ last'.panic = "none"
        /\ last'.hit \/ ~last'.result.ok) =>
            /\ Stored(key_val') = Stored(key_val)
            /\ size_in_bytes' = size_in_bytes
            /\ max_size_in_bytes' = max_size_in_bytes
            /\ last'.pops = <<>>]_vars

\* C23 for the cache alone: a get, hit or miss, evicts nothing.
C23_GetEvictsNothing ==
    [][(calls' = calls + 1 /\ last'.op = "get") =>
            /\ Stored(key_val') = Stored(key_val)
            /\ size_in_bytes' = size_in_bytes
            /\ max_size_in_bytes' = max_size_in_bytes]_vars

\* C23 witness: a load_file hit a cached key with a priority other than the
\* one stored under it.
C23_Witness ==
    /\ last.op = "load_file"
    /\ last.hit
    /\ last.priority # key_val[paths[last.path]].priority

\* C24: in every state a call has returned to, each cached key has at least
\* one record in the priority queue carrying the key with the frequency and
\* the priority the table holds for it.
C24_EveryEntryEvictable ==
    status = "running" =>
        \A k \in DOMAIN key_val :
            BagIn(CacheEntry(k, key_val[k].frequency, key_val[k].priority), heap)

\* C24 witness: an eviction loop discarded a stale record of a key that is
\* cached, and the key still has its current record.
C24_Witness ==
    /\ status = "running"
    /\ \E e \in Pops : e.kind = "stale" /\ e.rec.key \in DOMAIN key_val
    /\ \E k \in DOMAIN key_val : key_val[k].frequency > 0

\* C28: shrink_to_fit ends from every state and for every budget, having
\* popped at most as many records as the queue held when it was entered,
\* each pop taking one record out of the queue; so does the shrink_to_fit
\* that insert runs before it pushes its own record.
C28_ShrinkTerminates ==
    [][/\ \A m \in Budgets : ShrinkToFitFrom(CacheState, m) # {}
       /\ (calls' = calls + 1 /\ last'.op \in {"shrink_to_fit", "insert"}) =>
            /\ Len(last'.pops) <= HeapLen(heap)
            /\ HeapLen(heap') = HeapLen(heap) - Len(last'.pops)
                    + (IF last'.op = "insert" /\ last'.panic = "none" THEN 1 ELSE 0)]_vars

\* C28 witness: a shrink_to_fit popped two records, a stale one among them,
\* and returned.
C28_Witness ==
    /\ last.op = "shrink_to_fit"
    /\ last.panic = "none"
    /\ Len(last.pops) = 2
    /\ \E e \in Pops : e.kind = "stale"

(***************************************************************************)
(* Claims about the container codec, checked under SpecCodec.              *)
(***************************************************************************)
\* the file the last load_asset named
LoadedFile == Resolve(location, last.path)

\* the last call was a load_asset whose load_file returned exactly the bytes
\* of the container a writer last left at that path
ReadBack(tag) ==
    /\ last.op = "load_asset"
    /\ last.loaded.some
    /\ LoadedFile \in DOMAIN wrote
    /\ wrote[LoadedFile].tag = tag
    /\ last.loaded.v = fs[LoadedFile]

\* C9: a texture written by write_texture and read back by load_asset comes
\* back as a Texture with the same width, height and format and with exactly
\* the payload bytes that were written.
C9_TextureRoundTrip ==
    ReadBack("Texture") =>
        /\ last.panic = "none"
        /\ last.result.ok
        /\ last.result.v.tag = "Texture"
        /\ last.result.v.width = wrote[LoadedFile].width
        /\ last.result.v.height = wrote[LoadedFile].height
        /\ last.result.v.format = wrote[LoadedFile].format
        /\ last.result.v.data = wrote[LoadedFile].data

\* C9 witness: a texture with a format that needs escaping and a payload of
\* two bytes was written and read back.
C9_Witness ==
    /\ ReadBack("Texture")
    /\ wrote[LoadedFile].format = Some(<<34, 92, 10>>)
    /\ wrote[LoadedFile].width = 512
    /\ wrote[LoadedFile].data = <<255, 10>>
    /\ last.result = Ok(wrote[LoadedFile])

\* C10: n keys and n buffers written by write_texture_array and read back by
\* load_asset come back as a TextureArray with the same n keys in the same
\* order and with the i-th buffer exactly equal to the i-th buffer written.
C10_TextureArrayRoundTrip ==
    ReadBack("TextureArray") =>
        /\ last.panic = "none"
        /\ last.result.ok
        /\ last.result.v.tag = "TextureArray"
        /\ last.result.v.keys = wrote[LoadedFile].keys
        /\ Len(last.result.v.data) = Len(wrote[LoadedFile].data)
        /\ \A i \in 1..Len(wrote[LoadedFile].data) :
                last.result.v.data[i] = wrote[LoadedFile].data[i]

\* C10 witness: two buffers of different lengths under two different keys
\* were written and read back.
C10_Witness ==
    /\ ReadBack("TextureArray")
    /\ wrote[LoadedFile].keys = <<<<43, 120>>, <<45, 120>>>>
    /\ wrote[LoadedFile].data = <<<<1, 2>>, <<7>>>>
    /\ last.result.ok
    /\ last.result.v.data = wrote[LoadedFile].data


\* the words of payload p that are complete, each from its four bytes
CompleteWords(p) ==
    [i \in 1..(Len(p) \div 4) |->
        p[4 * i - 3] + 256 * (p[4 * i - 2] + 256 * (p[4 * i - 1] + 256 * p[4 * i]))]

\* the last call was a load_asset whose load_file returned the bytes of the
\* hand-made file the caller holds
ReadRaw ==
    /\ last.op = "load_asset"
    /\ last.loaded.some
    /\ asset.tag = "Raw"
    /\ last.loaded.v = asset.bytes

\* C11: a sequence of 32-bit words written by write_shader and read back by
\* load_asset comes back as a Shader with the same words; a shader payload
\* whose length is not a multiple of 4 decodes to its complete words, the
\* trailing bytes dropped, and is no failure.
C11_ShaderRoundTrip ==
    /\ ReadBack("Shader") =>
            /\ last.panic = "none"
            /\ last.result = Ok([tag |-> "Shader", data |-> wrote[LoadedFile].data])
    /\ (ReadRaw /\ asset \in PartialShaders) =>
            /\ last.panic = "none"
            /\ last.result = Ok([tag |-> "Shader", data |-> CompleteWords(asset.payload)])

\* C11 witness: three words were written and read back.
C11_Witness ==
    /\ ReadBack("Shader")
    /\ Len(wrote[LoadedFile].data) = 3
    /\ last.result.ok
    /\ last.result.v.data = wrote[LoadedFile].data

\* C11 witness of the partial word: a payload of six bytes was read as one word.
C11_WitnessPartial ==
    /\ ReadRaw
    /\ asset \in PartialShaders
    /\ Len(asset.payload) % 4 # 0
    /\ last.result.ok
    /\ Len(last.result.v.data) = 1


\* the writers that end in write_asset, and Backend::write_file
WriteOps == {"write_texture", "write_texture_array", "write_shader", "write_file"}

\* the bytes at f are the asset the caller holds: the hand-made bytes, or a
\* container that decodes to the asset
Holds(bytes) ==
    IF asset.tag = "Raw" THEN bytes = asset.bytes
    ELSE DecodeAsset(bytes) = Decoded("none", Ok(asset))

\* C14: a write that reaches an existing path fails with an already-exists
\* error and leaves every file as it was when overwrite is false, and
\* replaces that file's bytes with the new container when overwrite is true.
C14_OverwriteGate ==
    [][(/\ calls' = calls + 1
        /\ last'.op \in WriteOps
        /\ last'.file \in DOMAIN fs
        /\ last'.result # Err("length")) =>
            IF last'.overwrite
            THEN /\ last'.result.ok
                 /\ DOMAIN fs' = DOMAIN fs
                 /\ Holds(fs'[last'.file])
                 /\ \A f \in DOMAIN fs \ {last'.file} : fs'[f] = fs[f]
            ELSE /\ last'.result = Err("already_exists")
                 /\ fs' = fs]_vars

\* C14 witness: a container write without the overwrite flag met an existing
\* file of other bytes and was refused.
C14_Witness ==
    /\ last.op \in {"write_texture", "write_texture_array", "write_shader"}
    /\ ~last.overwrite
    /\ last.result = Err("already_exists")
    /\ ~Holds(fs[last.file])

\* C14 witness of the replacement: a container write with the overwrite flag
\* replaced an existing file.
C14_WitnessReplaced ==
    /\ last.op \in {"write_texture", "write_texture_array", "write_shader"}
    /\ last.overwrite
    /\ last.result.ok
    /\ \A p \in Paths : Resolve(location, p) \in DOMAIN fs
    /\ Holds(fs[last.file])

\* no element occurs twice in the sequence
Distinct(seq) == \A i, j \in 1..Len(seq) : i # j => seq[i] # seq[j]

\* C17: every container write_texture_array leaves has pairwise distinct
\* keys in its header, and a write whose key list holds a key twice is
\* rejected.
C17_UniqueKeys ==
    last.op = "write_texture_array" =>
        /\ last.result.ok => Distinct(DecodeAsset(fs[last.file]).result.v.keys)
        /\ ~Distinct(asset.keys) => ~last.result.ok

(***************************************************************************)
(* Claims about the reader of containers, checked under SpecDecode.        *)
(***************************************************************************)
\* C12: when the bytes load_asset obtains are no well-formed container (fewer
\* than 8 bytes, a header length past the end, an unparsable header, a
\* payload offset past the end, decreasing TextureArray offsets), load_asset
\* returns an error result and does not abort.
C12_MalformedIsError ==
    (ReadRaw /\ asset \in MalformedFiles) =>
        /\ last.panic = "none"
        /\ ~last.result.ok
        /\ status = "running"

\* C13: load_asset returns an error for every container whose header
\* declares a major version other than VERSION_MAJOR, and an asset for a
\* container that differs from the reader in its minor version only.
C13_VersionGate ==
    (ReadRaw /\ asset \in VersionedFiles) =>
        /\ last.panic = "none"
        /\ asset.meta.major # VERSION_MAJOR => ~last.result.ok
        /\ asset.meta.major = VERSION_MAJOR => last.result.ok


(***************************************************************************)
(* Claims about composite containers, checked under SpecGltf.              *)
(***************************************************************************)
\* C16: when load_asset decodes a Gltf container and the load_file of the
\* resolver callback fails for a sub-resource, whatever the kind of the
\* error, load_asset returns an error result and no asset, and does not abort.
C16_CompositeFailure ==
    (/\ ReadRaw
     /\ asset \in GltfFiles
     /\ \E i \in 1..Len(last.sub) : ~last.sub[i].ok) =>
        /\ last.panic = "none"
        /\ status = "running"
        /\ ~last.result.ok


\* the same over the filesystem backend, whose load_file fails with Error::Io only
C16_NativeBackend == backend = "fs" => C16_CompositeFailure

(***************************************************************************)
(* Claims about the slices of a texture array, checked under SpecCodec.    *)
(***************************************************************************)
\* the bytes of p from offset a (counted from 0) up to offset b, b excluded
Slice(p, a, b) == [i \in 1..(b - a) |-> p[a + i]]

\* the total length of the first n buffers
RECURSIVE SumLens(_, _)
SumLens(bufs, n) == IF n = 0 THEN 0 ELSE SumLens(bufs, n - 1) + Len(bufs[n])

\* the header of the container found in file f
HeaderIn(f) == ParseHeader(SubSeq(fs[f], 9, 8 + FromLeBytes(SubSeq(fs[f], 1, 8))))

\* C25: load_asset returns as blob i of a texture array the payload bytes
\* from the offset of entry i up to the offset of entry i+1, and as the last
\* blob the bytes from the last offset to the end of the payload; the offsets
\* write_texture_array writes are the sums of the lengths of the buffers
\* before each entry, starting at 0.
C25_SlicingRule ==
    /\ (ReadRaw /\ asset \in SlicedArrays) =>
          LET es == asset.meta.ctype.data
              n == Len(es)
              upto(i) == IF i = n THEN Len(asset.payload) ELSE es[i + 1].offset
          IN /\ last.panic = "none"
             /\ last.result.ok
             /\ last.result.v.tag = "TextureArray"
             /\ Len(last.result.v.data) = n
             /\ \A i \in 1..n :
                    last.result.v.data[i] = Slice(asset.payload, es[i].offset, upto(i))
    /\ (last.op = "write_texture_array" /\ last.result.ok) =>
          LET h == HeaderIn(last.file)
          IN /\ h.ok
             /\ Len(h.v.ctype.data) = Len(asset.data)
             /\ \A i \in 1..Len(asset.data) :
                    h.v.ctype.data[i].offset = SumLens(asset.data, i - 1)

\* C25 witness: a hand-made array whose first entry starts at offset 1 was
\* read: an empty blob, then the rest of the payload.
C25_Witness ==
    /\ ReadRaw /\ asset \in SlicedArrays
    /\ last.result.ok
    /\ last.result.v.data = << <<>>, <<6, 7>> >>

\* C25 witness of the writer: two buffers, the first of two bytes, were
\* written and the second entry has offset 2.
C25_WitnessWritten ==
    /\ last.op = "write_texture_array" /\ last.result.ok
    /\ Len(asset.data) = 2
    /\ HeaderIn(last.file).v.ctype.data[2].offset = 2

(***************************************************************************)
(* Claims about the loads of sub-resources, checked under SpecGltf.        *)
(***************************************************************************)
\* the names the document of the hand-made Gltf container asks for
Requested == GltfUris(asset.payload).v

\* what load_file(name, priority) called for each of names in turn, from
\* loader state w, ends in when every call returns bytes
RECURSIVE LoadFiles(_, _, _, _, _)
LoadFiles(w, max, names, priority, got) ==
    IF names = <<>> THEN {[w |-> w, got |-> got]}
    ELSE UNION {IF o.result.ok /\ o.w.c.panic = "none" /\ ~o.w.hung
                THEN LoadFiles(o.w, max, Tail(names), priority, Append(got, o.result.v))
                ELSE {}
                : o \in LoadFileFrom(w, max, Head(names), priority)}

\* C26: when load_asset on a Gltf container has succeeded, every name the
\* importer asked for has an identifier in the loader's Path Index, and the
\* Path Index, the issued identifiers, the cache and the buffers returned
\* are those that load_file(path, priority) followed by
\* load_file(name, priority) for each requested name, in order and on the
\* same loader, end in.
C26_SharedState ==
    [][(/\ calls' = calls + 1
        /\ last'.op = "load_asset"
        /\ last'.loaded = Some(asset.bytes)
        /\ last'.result.ok
        /\ last'.result.v.tag = "Gltf") =>
            /\ \A i \in 1..Len(Requested) : Requested[i] \in DOMAIN paths'
            /\ \E c \in LoadFiles(WhatState, max_size_in_bytes,
                                  <<last'.path>> \o Requested, last'.priority, <<>>) :
                  /\ paths' = c.w.paths
                  /\ used' = c.w.used
                  /\ key_val' = c.w.c.kv
                  /\ heap' = c.w.c.heap
                  /\ size_in_bytes' = c.w.c.size
                  /\ last'.result.v.buffers = Tail(c.got)]_vars

\* C26 witness: a document naming two paths was loaded with priority 1 from
\* "a" and brought "/b" into the cache under that priority.
C26_Witness ==
    /\ last.op = "load_asset"
    /\ last.loaded = Some(asset.bytes)
    /\ last.result.ok
    /\ last.result.v.tag = "Gltf"
    /\ Requested = <<"a", "/b">>
    /\ last.priority = 1
    /\ "/b" \in DOMAIN paths
    /\ paths["/b"] \in DOMAIN key_val
    /\ key_val[paths["/b"]].priority = 1
    /\ key_val[paths["/b"]].frequency = 0

(***************************************************************************)
(* Claims about writes and the cache, checked under SpecWrite.             *)
(***************************************************************************)
\* the operations that write a container
ContainerWrites == {"write_texture", "write_texture_array", "write_shader"}

\* C27: write_texture, write_texture_array and write_shader (which the
\* convert operations end in) leave the Path Index, the issued identifiers,
\* the table, the queue, the running total and the budget as they were, and
\* a load_file of a path that is cached returns the cached bytes, those of
\* the last read, whatever the file holds by now.
C27_WritesLeaveCache ==
    [][calls' = calls + 1 =>
        /\ last'.op \in ContainerWrites =>
              UNCHANGED <<paths, used, key_val, heap, size_in_bytes, max_size_in_bytes>>
        /\ (/\ last'.op = "load_file"
            /\ last'.path \in DOMAIN paths
            /\ paths[last'.path] \in DOMAIN key_val) =>
              /\ last'.hit
              /\ ~last'.read
              /\ last'.path \in DOMAIN fetched
              /\ last'.result = Ok(fetched[last'.path])]_vars

\* C27 witness: a path was loaded, a container was written over its file,
\* and the next load_file returned the bytes from before the write.
C27_Witness ==
    /\ last.op = "load_file"
    /\ last.hit
    /\ LoadedFile \in DOMAIN wrote
    /\ last.result = Ok(<<>>)
    /\ fs[LoadedFile] # <<>>

====
